---------------------------- MODULE Spec2Model ----------------------------
(***************************************************************************)
(* Model of src/src/main.c: an SSD1306-class OLED text driver over the     *)
(* TWI (I2C) master of an ATtiny412.                                       *)
(*                                                                         *)
(* The driver is single threaded.  Its control state is a call stack of    *)
(* frames, one per active C function; every action below is one statement  *)
(* (or one loop iteration) of one function.  The TWI peripheral is the     *)
(* registers the code touches (MADDR, MDATA, the WIF bit of MSTATUS) plus  *)
(* the bus ownership state.  A mock transport records what is put on the   *)
(* bus (log), and a harness issues the driver calls.                       *)
(***************************************************************************)
EXTENDS Integers, Sequences, FiniteSets, TLC

VARIABLES
    stack,     \* call stack, innermost frame last
    MADDR,     \* TWI0.MADDR
    MDATA,     \* TWI0.MDATA
    wif,       \* TWI0.MSTATUS & TWI_WIF_bm
    inflight,  \* the peripheral is still shifting an address or data byte
    busOpen,   \* a transaction is open (start sent, stop not yet sent)
    rxack,     \* TWI0.MSTATUS & TWI_RXACK_bm: the last byte was not acknowledged
    MBAUD,     \* TWI0.MBAUD
    MCTRLA,    \* TWI0.MCTRLA
    flashFill, \* the bytes this build's flash holds outside the font table
    log,       \* mock transport: bus events since the recording was cleared
    reads,     \* font row indices read since the recording was cleared
    calls,     \* harness: driver calls made since the recording was cleared
    ret        \* "none" while a driver call runs, "void" once it has returned

vars == <<stack, MADDR, MDATA, wif, inflight, busOpen, rxack, MBAUD, MCTRLA,
          flashFill, log, reads, calls, ret>>

\* the transfer state of the peripheral
hw == <<MADDR, MDATA, wif, inflight, busOpen, rxack>>

\* what only i2c_init and the build decide
cfg == <<MBAUD, MCTRLA, flashFill>>

-----------------------------------------------------------------------------
(* Bounds of the harness *)

\* longest string handed to oled_write_string
MaxStrLen == 2

\* largest row argument handed to oled_set_cursor (one past the last page)
MaxRowArg == 8

\* most iterations of one wait loop that are counted while WIF stays clear
MaxPolls == 3

\* most bytes the display leaves unacknowledged in one recording
MaxNacks == 1

-----------------------------------------------------------------------------
(* 8-bit arithmetic *)

Byte == 0..255

ToUint8(n) == n % 256

RECURSIVE BitAnd(_, _)
BitAnd(a, b) ==
    IF a = 0 \/ b = 0 THEN 0
    ELSE (IF a % 2 = 1 /\ b % 2 = 1 THEN 1 ELSE 0) + 2 * BitAnd(a \div 2, b \div 2)

RECURSIVE BitOr(_, _)
BitOr(a, b) ==
    IF a = 0 THEN b
    ELSE IF b = 0 THEN a
    ELSE (IF a % 2 = 1 \/ b % 2 = 1 THEN 1 ELSE 0) + 2 * BitOr(a \div 2, b \div 2)

ShiftRight4(a) == a \div 16

\* the address written to MADDR without the shift that makes room for R/W
ShiftLeft1None(a) == ToUint8(a)

ShiftLeft1(a) == ToUint8(a * 2)

-----------------------------------------------------------------------------
(* Definitions of main.c *)

OLED_ADDR == 60                         \* 0x3C

OLED_CMD_DISPLAY_OFF == 174             \* 0xAE
OLED_CMD_DISPLAY_ON == 175              \* 0xAF
OLED_CMD_SET_DISPLAY_CLOCK_DIV == 213   \* 0xD5
OLED_CMD_SET_MULTIPLEX == 168           \* 0xA8
OLED_CMD_SET_DISPLAY_OFFSET == 211      \* 0xD3
OLED_CMD_SET_START_LINE == 64           \* 0x40
OLED_CMD_CHARGE_PUMP == 141             \* 0x8D
OLED_CMD_MEMORY_MODE == 32              \* 0x20
OLED_CMD_SEG_REMAP == 161               \* 0xA1
OLED_CMD_COM_SCAN_DEC == 200            \* 0xC8
OLED_CMD_SET_CONTRAST == 129            \* 0x81
OLED_CMD_PRECHARGE == 217               \* 0xD9
OLED_CMD_SETVCOMDETECT == 219           \* 0xDB
OLED_CMD_DISPLAY_ALL_ON_RESUME == 164   \* 0xA4
OLED_CMD_NORMAL_DISPLAY == 166          \* 0xA6

\* const uint8_t font[][5]: twelve rows of five column bytes
font ==
    << <<0, 0, 0, 0, 0>>,           \* {0x00,0x00,0x00,0x00,0x00}
       <<0, 0, 95, 0, 0>>,          \* {0x00,0x00,0x5F,0x00,0x00}
       <<124, 18, 17, 18, 124>>,    \* {0x7C,0x12,0x11,0x12,0x7C}
       <<0, 66, 127, 64, 0>>,       \* {0x00,0x42,0x7F,0x40,0x00}
       <<66, 97, 81, 73, 70>>,      \* {0x42,0x61,0x51,0x49,0x46}
       <<33, 65, 69, 75, 49>>,      \* {0x21,0x41,0x45,0x4B,0x31}
       <<24, 20, 18, 127, 16>>,     \* {0x18,0x14,0x12,0x7F,0x10}
       <<39, 69, 69, 69, 57>>,      \* {0x27,0x45,0x45,0x45,0x39}
       <<60, 74, 73, 73, 48>>,      \* {0x3C,0x4A,0x49,0x49,0x30}
       <<1, 113, 9, 5, 3>>,         \* {0x01,0x71,0x09,0x05,0x03}
       <<54, 73, 73, 73, 54>>,      \* {0x36,0x49,0x49,0x49,0x36}
       <<6, 73, 73, 41, 30>> >>     \* {0x06,0x49,0x49,0x29,0x1E}

\* number of rows of font (sizeof font / sizeof font[0])
FontRows == Len(font)

\* The bytes a read of program memory outside every object can return: the
\* content of flash around the table is whatever the build placed there.
UndefBytes == {0, 255}

\* F_CPU and SCL_CLOCK
F_CPU == 3333333

SCL_CLOCK == 100000

\* TWI_ENABLE_bm
TWI_ENABLE_bm == 1

\* (F_CPU / (2 * SCL_CLOCK)) - 5, in unsigned long arithmetic
BaudValue == (F_CPU \div (2 * SCL_CLOCK)) - 5

\* The row index oled_write_char computes for character c: c - 32, in int.
FontIndex(c) == c - 32

\* pgm_read_byte(&font[idx][i]): the table's byte when the row exists,
\* otherwise whatever lies at that address.
FontRead(idx, i) ==
    IF idx \in 0..(FontRows - 1) THEN {font[idx + 1][i + 1]} ELSE flashFill

\* oled_init with the charge pump enabled before the start line is set
InitSeqReordered ==
    << OLED_CMD_DISPLAY_OFF, OLED_CMD_SET_DISPLAY_CLOCK_DIV, 128,
       OLED_CMD_SET_MULTIPLEX, 31, OLED_CMD_SET_DISPLAY_OFFSET, 0,
       OLED_CMD_CHARGE_PUMP, 20, BitOr(OLED_CMD_SET_START_LINE, 0),
       OLED_CMD_MEMORY_MODE, 0, BitOr(OLED_CMD_SEG_REMAP, 1),
       OLED_CMD_COM_SCAN_DEC, OLED_CMD_SET_CONTRAST, 143, OLED_CMD_PRECHARGE, 241,
       OLED_CMD_SETVCOMDETECT, 64, OLED_CMD_DISPLAY_ALL_ON_RESUME,
       OLED_CMD_NORMAL_DISPLAY, OLED_CMD_DISPLAY_ON >>

\* oled_init with the parameter of the memory addressing mode left out
InitSeqOmitted ==
    << OLED_CMD_DISPLAY_OFF, OLED_CMD_SET_DISPLAY_CLOCK_DIV, 128,
       OLED_CMD_SET_MULTIPLEX, 31, OLED_CMD_SET_DISPLAY_OFFSET, 0,
       BitOr(OLED_CMD_SET_START_LINE, 0), OLED_CMD_CHARGE_PUMP, 20,
       OLED_CMD_MEMORY_MODE, BitOr(OLED_CMD_SEG_REMAP, 1),
       OLED_CMD_COM_SCAN_DEC, OLED_CMD_SET_CONTRAST, 143, OLED_CMD_PRECHARGE, 241,
       OLED_CMD_SETVCOMDETECT, 64, OLED_CMD_DISPLAY_ALL_ON_RESUME,
       OLED_CMD_NORMAL_DISPLAY, OLED_CMD_DISPLAY_ON >>

\* oled_init with the multiplex ratio of a 64-row display
InitSeqMux64 ==
    << OLED_CMD_DISPLAY_OFF, OLED_CMD_SET_DISPLAY_CLOCK_DIV, 128,
       OLED_CMD_SET_MULTIPLEX, 63, OLED_CMD_SET_DISPLAY_OFFSET, 0,
       BitOr(OLED_CMD_SET_START_LINE, 0), OLED_CMD_CHARGE_PUMP, 20,
       OLED_CMD_MEMORY_MODE, 0, BitOr(OLED_CMD_SEG_REMAP, 1),
       OLED_CMD_COM_SCAN_DEC, OLED_CMD_SET_CONTRAST, 143, OLED_CMD_PRECHARGE, 241,
       OLED_CMD_SETVCOMDETECT, 64, OLED_CMD_DISPLAY_ALL_ON_RESUME,
       OLED_CMD_NORMAL_DISPLAY, OLED_CMD_DISPLAY_ON >>

\* The command bytes oled_init passes to oled_command, in program order.
InitSeq ==
    << OLED_CMD_DISPLAY_OFF,
       OLED_CMD_SET_DISPLAY_CLOCK_DIV,
       128,                                       \* 0x80
       OLED_CMD_SET_MULTIPLEX,
       31,                                        \* 0x1F
       OLED_CMD_SET_DISPLAY_OFFSET,
       0,                                         \* 0x00
       BitOr(OLED_CMD_SET_START_LINE, 0),
       OLED_CMD_CHARGE_PUMP,
       20,                                        \* 0x14
       OLED_CMD_MEMORY_MODE,
       0,                                         \* 0x00
       BitOr(OLED_CMD_SEG_REMAP, 1),
       OLED_CMD_COM_SCAN_DEC,
       OLED_CMD_SET_CONTRAST,
       143,                                       \* 0x8F
       OLED_CMD_PRECHARGE,
       241,                                       \* 0xF1
       OLED_CMD_SETVCOMDETECT,
       64,                                        \* 0x40
       OLED_CMD_DISPLAY_ALL_ON_RESUME,
       OLED_CMD_NORMAL_DISPLAY,
       OLED_CMD_DISPLAY_ON >>

\* The three command bytes of oled_set_cursor(col, row), in program order.
CursorPage(row) == ToUint8(176 + row)                        \* 0xB0 + row

CursorColLow(col) == 0 + BitAnd(col, 15)                     \* 0x00 + (col & 0x0F)

\* the high nibble command built from the low nibble (shift forgotten)
CursorColHighNoShift(col) == 16 + BitAnd(col, 15)

CursorColHigh(col) == 16 + BitAnd(ShiftRight4(col), 15)      \* 0x10 + ((col >> 4) & 0x0F)

\* Control bytes: Co = 0, D/C# = 0 for commands; Co = 0, D/C# = 1 for data.
CmdControl == 0

DataControl == 64

\* The separator column oled_write_char sends after the glyph.
CharSpacing == 0

\* a glyph loop that stops one column early (i < 4)
GlyphColsShort == 5 - 1

\* The glyph loop bound of oled_write_char (i < 5).
GlyphCols == 5

\* *str of a NUL-terminated string s at (1-based) position pos.
StrAt(s, pos) == IF pos <= Len(s) THEN s[pos] ELSE 0

-----------------------------------------------------------------------------
(* Frames *)

Frame(fn, a, b, s) == [fn |-> fn, pc |-> 1, a |-> a, b |-> b, str |-> s, i |-> 0,
                       mark |-> Len(log)]

Top == stack[Len(stack)]

Running(fn) == Len(stack) > 0 /\ Top.fn = fn

\* replace the top frame
SetTop(f) == [stack EXCEPT ![Len(stack)] = f]

\* advance the top frame to pc p and call g
CallFrom(p, g) == Append(SetTop([Top EXCEPT !.pc = p]), g)

Return == SubSeq(stack, 1, Len(stack) - 1)

Ev(k, v) == [k |-> k, v |-> v]

-----------------------------------------------------------------------------
(* i2c_start, i2c_write, i2c_stop and the peripheral *)

\* TWI0.MADDR = address << 1;  (the write starts the address phase and the
\* peripheral clears WIF)
i2c_start_addr ==
    /\ Running("i2c_start") /\ Top.pc = 1
    /\ MADDR' = ShiftLeft1(Top.a)
    /\ wif' = FALSE
    /\ inflight' = TRUE
    /\ busOpen' = TRUE
    /\ log' = Append(log, Ev("start", MADDR'))
    /\ stack' = SetTop([Top EXCEPT !.pc = 2])
    /\ UNCHANGED <<MDATA, rxack, reads, calls, ret, cfg>>

\* i2c_start with the loop condition inverted: while (MSTATUS & WIF);
i2c_start_wait_inverted ==
    /\ Running("i2c_start") /\ Top.pc = 2
    /\ ~wif
    /\ stack' = Return
    /\ UNCHANGED <<hw, log, reads, calls, ret, cfg>>

\* while (!(TWI0.MSTATUS & TWI_WIF_bm));  the loop ends once WIF is set
i2c_start_wait ==
    /\ Running("i2c_start") /\ Top.pc = 2
    /\ wif
    /\ stack' = Return
    /\ UNCHANGED <<hw, log, reads, calls, ret, cfg>>

\* TWI0.MDATA = data;
i2c_write_data ==
    /\ Running("i2c_write") /\ Top.pc = 1
    /\ MDATA' = Top.a
    /\ wif' = FALSE
    /\ inflight' = TRUE
    /\ log' = Append(log, Ev("byte", MDATA'))
    /\ stack' = SetTop([Top EXCEPT !.pc = 2])
    /\ UNCHANGED <<MADDR, busOpen, rxack, reads, calls, ret, cfg>>

\* i2c_write without its wait loop
i2c_write_nowait ==
    /\ Running("i2c_write") /\ Top.pc = 2
    /\ stack' = Return
    /\ UNCHANGED <<hw, log, reads, calls, ret, cfg>>

\* while (!(TWI0.MSTATUS & TWI_WIF_bm));
i2c_write_wait ==
    /\ Running("i2c_write") /\ Top.pc = 2
    /\ wif
    /\ stack' = Return
    /\ UNCHANGED <<hw, log, reads, calls, ret, cfg>>

\* TWI0.MCTRLB = TWI_MCMD_STOP_gc;
i2c_stop ==
    /\ Running("i2c_stop") /\ Top.pc = 1
    /\ busOpen' = FALSE
    /\ wif' = FALSE
    /\ log' = Append(log, Ev("stop", 0))
    /\ stack' = Return
    /\ UNCHANGED <<MADDR, MDATA, inflight, rxack, reads, calls, ret, cfg>>

\* The peripheral finishes the byte it was given, the display acknowledges
\* it, and the peripheral raises WIF.
TwiComplete ==
    /\ inflight
    /\ inflight' = FALSE
    /\ wif' = TRUE
    /\ rxack' = FALSE
    /\ UNCHANGED <<stack, MADDR, MDATA, busOpen, log, reads, calls, ret, cfg>>

\* One iteration of the loop of i2c_start that finds WIF clear; Top.i counts
\* the iterations.  The loop has no other exit than WIF.
i2c_start_poll ==
    /\ Running("i2c_start") /\ Top.pc = 2
    /\ ~wif
    /\ Top.i < MaxPolls
    /\ stack' = SetTop([Top EXCEPT !.i = Top.i + 1])
    /\ UNCHANGED <<hw, log, reads, calls, ret, cfg>>

\* One iteration of the loop of i2c_write that finds WIF clear.
i2c_write_poll ==
    /\ Running("i2c_write") /\ Top.pc = 2
    /\ ~wif
    /\ Top.i < MaxPolls
    /\ stack' = SetTop([Top EXCEPT !.i = Top.i + 1])
    /\ UNCHANGED <<hw, log, reads, calls, ret, cfg>>

Nacks == Cardinality({k \in 1..Len(log) : log[k].k = "nack"})

\* The peripheral finishes the byte it was given and the display does not
\* acknowledge it: WIF is raised with RXACK set.  The mock transport records
\* the missing acknowledge.
TwiNack ==
    /\ inflight
    /\ Nacks < MaxNacks
    /\ inflight' = FALSE
    /\ wif' = TRUE
    /\ rxack' = TRUE
    /\ log' = Append(log, Ev("nack", 0))
    /\ UNCHANGED <<stack, MADDR, MDATA, busOpen, reads, calls, ret, cfg>>

-----------------------------------------------------------------------------
(* oled_command *)

\* the statement of oled_command at pc, as the frame it calls
CommandStep(pc, cmd) ==
    CASE pc = 1 -> Frame("i2c_start", OLED_ADDR, 0, <<>>)
      [] pc = 2 -> Frame("i2c_write", CmdControl, 0, <<>>)
      [] pc = 3 -> Frame("i2c_write", cmd, 0, <<>>)
      [] pc = 4 -> Frame("i2c_stop", 0, 0, <<>>)

\* oled_command returning after the opcode, without i2c_stop
CommandLenNoStop == 4 - 1

CommandLen == 4

oled_command ==
    /\ Running("oled_command")
    /\ IF Top.pc <= CommandLen
       THEN stack' = CallFrom(Top.pc + 1, CommandStep(Top.pc, Top.a))
       ELSE stack' = Return
    /\ UNCHANGED <<hw, log, reads, calls, ret, cfg>>

-----------------------------------------------------------------------------
(* oled_init, oled_set_cursor *)

oled_init ==
    /\ Running("oled_init")
    /\ IF Top.pc <= Len(InitSeq)
       THEN stack' = CallFrom(Top.pc + 1, Frame("oled_command", InitSeq[Top.pc], 0, <<>>))
       ELSE stack' = Return
    /\ UNCHANGED <<hw, log, reads, calls, ret, cfg>>

\* the statement of oled_set_cursor(col, row) at pc, as the command it sends
CursorStep(pc, col, row) ==
    CASE pc = 1 -> CursorPage(row)
      [] pc = 2 -> CursorColLow(col)
      [] pc = 3 -> CursorColHigh(col)

CursorLen == 3

oled_set_cursor ==
    /\ Running("oled_set_cursor")
    /\ IF Top.pc <= CursorLen
       THEN stack' = CallFrom(Top.pc + 1,
                        Frame("oled_command", CursorStep(Top.pc, Top.a, Top.b), 0, <<>>))
       ELSE stack' = Return
    /\ UNCHANGED <<hw, log, reads, calls, ret, cfg>>

-----------------------------------------------------------------------------
(* oled_write_char, oled_write_string *)

\* i2c_start(OLED_ADDR); i2c_write(0x40);
oled_write_char_open ==
    /\ Running("oled_write_char") /\ Top.pc \in {1, 2}
    /\ stack' = CallFrom(Top.pc + 1,
                    IF Top.pc = 1 THEN Frame("i2c_start", OLED_ADDR, 0, <<>>)
                    ELSE Frame("i2c_write", DataControl, 0, <<>>))
    /\ UNCHANGED <<hw, log, reads, calls, ret, cfg>>

\* for (i = 0; i < 5; i++) i2c_write(pgm_read_byte(&font[c - 32][i]));
oled_write_char_glyph ==
    /\ Running("oled_write_char") /\ Top.pc = 3
    /\ IF Top.i < GlyphCols
       THEN /\ \E b \in FontRead(FontIndex(Top.a), Top.i) :
                 stack' = Append(SetTop([Top EXCEPT !.i = Top.i + 1]),
                                 Frame("i2c_write", b, 0, <<>>))
            /\ reads' = reads \cup {FontIndex(Top.a)}
       ELSE /\ stack' = SetTop([Top EXCEPT !.pc = 4])
            /\ reads' = reads
    /\ UNCHANGED <<hw, log, calls, ret, cfg>>

\* oled_write_char without the separator column: i2c_stop follows the glyph
oled_write_char_close_nosep ==
    /\ Running("oled_write_char") /\ Top.pc \in {4, 5, 6}
    /\ stack' = CASE Top.pc = 4 -> CallFrom(6, Frame("i2c_stop", 0, 0, <<>>))
                  [] Top.pc = 5 -> CallFrom(6, Frame("i2c_stop", 0, 0, <<>>))
                  [] Top.pc = 6 -> Return
    /\ UNCHANGED <<hw, log, reads, calls, ret, cfg>>

\* i2c_write(0x00); i2c_stop(); and the return
oled_write_char_close ==
    /\ Running("oled_write_char") /\ Top.pc \in {4, 5, 6}
    /\ stack' = CASE Top.pc = 4 -> CallFrom(5, Frame("i2c_write", CharSpacing, 0, <<>>))
                  [] Top.pc = 5 -> CallFrom(6, Frame("i2c_stop", 0, 0, <<>>))
                  [] Top.pc = 6 -> Return
    /\ UNCHANGED <<hw, log, reads, calls, ret, cfg>>

\* oled_write_string as a do-while: the first character is written before
\* the terminator is tested
oled_write_string_dowhile ==
    /\ Running("oled_write_string")
    /\ IF Top.i = 0 \/ StrAt(Top.str, Top.i + 1) # 0
       THEN stack' = Append(SetTop([Top EXCEPT !.i = Top.i + 1]),
                            Frame("oled_write_char", StrAt(Top.str, Top.i + 1), 0, <<>>))
       ELSE stack' = Return
    /\ UNCHANGED <<hw, log, reads, calls, ret, cfg>>

\* oled_write_string giving up at the first character outside the table
oled_write_string_abort ==
    /\ Running("oled_write_string")
    /\ IF /\ StrAt(Top.str, Top.i + 1) # 0
          /\ FontIndex(StrAt(Top.str, Top.i + 1)) \in 0..(FontRows - 1)
       THEN stack' = Append(SetTop([Top EXCEPT !.i = Top.i + 1]),
                            Frame("oled_write_char", StrAt(Top.str, Top.i + 1), 0, <<>>))
       ELSE stack' = Return
    /\ UNCHANGED <<hw, log, reads, calls, ret, cfg>>

\* while (*str) oled_write_char(*str++);   Top.i counts the characters consumed
oled_write_string ==
    /\ Running("oled_write_string")
    /\ IF StrAt(Top.str, Top.i + 1) # 0
       THEN stack' = Append(SetTop([Top EXCEPT !.i = Top.i + 1]),
                            Frame("oled_write_char", StrAt(Top.str, Top.i + 1), 0, <<>>))
       ELSE stack' = Return
    /\ UNCHANGED <<hw, log, reads, calls, ret, cfg>>

-----------------------------------------------------------------------------
(* Harness: the caller of the driver and the mock transport's recording *)

\* characters handed to oled_write_char: the 7-bit codes
CharArgs == 0..127

\* characters of the strings handed to oled_write_string: ' ', '!' (rows of
\* the table) and '0' (a digit)
StrChars == {32, 33, 48}

RECURSIVE StringsUpTo(_)
StringsUpTo(n) ==
    IF n = 0 THEN {<<>>}
    ELSE LET shorter == StringsUpTo(n - 1)
         IN  shorter \cup {Append(s, c) : s \in {t \in shorter : Len(t) = n - 1}, c \in StrChars}

StrArgs == StringsUpTo(MaxStrLen)

CallRec(fn, a, b, s) == [fn |-> fn, a |-> a, b |-> b, str |-> s]

\* a driver call; the mock transport keeps recording
Invoke(fn, a, b, s) ==
    /\ stack = <<>> /\ ret = "void"
    /\ calls' = Append(calls, CallRec(fn, a, b, s))
    /\ stack' = <<Frame(fn, a, b, s)>>
    /\ ret' = "none"
    /\ UNCHANGED <<hw, log, reads, cfg>>

\* the harness clears the mock transport's recording between tests
Reset ==
    /\ stack = <<>> /\ ret = "void" /\ calls # <<>>
    /\ log' = <<>>
    /\ reads' = {}
    /\ calls' = <<>>
    /\ UNCHANGED <<stack, hw, ret, cfg>>

CallInit == calls = <<>> /\ Invoke("oled_init", 0, 0, <<>>)

CallSetCursor ==
    /\ calls = <<>>
    /\ \E col \in Byte, row \in 0..MaxRowArg : Invoke("oled_set_cursor", col, row, <<>>)

CallWriteChar == calls = <<>> /\ \E c \in CharArgs : Invoke("oled_write_char", c, 0, <<>>)

CallWriteString == calls = <<>> /\ \E s \in StrArgs : Invoke("oled_write_string", 0, 0, s)

\* the outermost driver call has returned (void: no status is reported)
Returned ==
    /\ stack = <<>> /\ ret = "none" /\ calls # <<>>
    /\ ret' = "void"
    /\ UNCHANGED <<stack, hw, log, reads, calls, cfg>>

-----------------------------------------------------------------------------

Init ==
    /\ stack = <<>>
    /\ MADDR = 0
    /\ MDATA = 0
    /\ wif = FALSE
    /\ inflight = FALSE
    /\ busOpen = FALSE
    /\ rxack = FALSE
    /\ MBAUD = ToUint8(BaudValue)
    /\ MCTRLA = TWI_ENABLE_bm
    /\ flashFill = UndefBytes
    /\ log = <<>>
    /\ reads = {}
    /\ calls = <<>>
    /\ ret = "void"

\* the statements of the bus layer, of oled_command and of the renderer
Core ==
    \/ i2c_start_addr
    \/ i2c_start_wait
    \/ i2c_write_data
    \/ i2c_write_wait
    \/ i2c_stop
    \/ TwiComplete
    \/ oled_command
    \/ oled_set_cursor
    \/ oled_write_char_open
    \/ oled_write_char_glyph
    \/ oled_write_char_close

Next ==
    \/ Core
    \/ oled_init
    \/ oled_write_string
    \/ Returned
    \/ Reset
    \/ CallInit
    \/ CallSetCursor
    \/ CallWriteChar
    \/ CallWriteString

\* Any driver call, in any order, each recorded on its own.
Spec == Init /\ [][Next]_vars

-----------------------------------------------------------------------------
(* The cursor test: oled_set_cursor immediately followed by oled_write_char, *)
(* recorded together.                                                        *)

\* the documented cursor range: column 0-127, page 0-7
Cols == 0..127

Rows == 0..7

\* characters of the cursor test: every code that has a row (' ' .. '+'),
\* '0' (past the table) and code 31 (before the table)
CursorChars == (32..43) \cup {48, 31}

TestSetCursor ==
    /\ calls = <<>>
    /\ \E col \in Cols, row \in Rows : Invoke("oled_set_cursor", col, row, <<>>)

TestWriteChar ==
    /\ Len(calls) = 1 /\ calls[1].fn = "oled_set_cursor"
    /\ \E c \in CursorChars : Invoke("oled_write_char", c, 0, <<>>)

CursorNext ==
    \/ Core
    \/ Returned
    \/ Reset
    \/ TestSetCursor
    \/ TestWriteChar

CursorSpec == Init /\ [][CursorNext]_vars

-----------------------------------------------------------------------------
(* A faulty bus: the display may leave a byte unacknowledged, and the wait   *)
(* loops' iterations are counted while the peripheral has not finished.      *)

FaultNext ==
    \/ i2c_start_addr
    \/ i2c_start_poll
    \/ i2c_start_wait
    \/ i2c_write_data
    \/ i2c_write_poll
    \/ i2c_write_wait
    \/ i2c_stop
    \/ TwiComplete
    \/ TwiNack
    \/ oled_command
    \/ oled_init
    \/ Returned
    \/ Reset
    \/ CallInit

FaultSpec == Init /\ [][FaultNext]_vars

-----------------------------------------------------------------------------
(* i2c_init and main: the program as it runs from reset *)

\* TWI0.MBAUD = (F_CPU / (2 * SCL_CLOCK)) - 5;  TWI0.MCTRLA = TWI_ENABLE_bm;
i2c_init ==
    /\ Running("i2c_init")
    /\ IF Top.pc = 1
       THEN /\ MBAUD' = ToUint8(BaudValue)
            /\ MCTRLA' = MCTRLA
            /\ stack' = SetTop([Top EXCEPT !.pc = 2])
       ELSE /\ MCTRLA' = TWI_ENABLE_bm
            /\ MBAUD' = MBAUD
            /\ stack' = Return
    /\ UNCHANGED <<hw, flashFill, log, reads, calls, ret>>

\* "Temp: 25C" and "Humidity: 50%"
TempText == <<84, 101, 109, 112, 58, 32, 50, 53, 67>>

HumidityText == <<72, 117, 109, 105, 100, 105, 116, 121, 58, 32, 53, 48, 37>>

\* main with the first rendering call moved ahead of oled_init
MainProgramRenderFirst ==
    << CallRec("i2c_init", 0, 0, <<>>),
       CallRec("oled_set_cursor", 0, 0, <<>>),
       CallRec("oled_init", 0, 0, <<>>),
       CallRec("oled_write_string", 0, 0, TempText),
       CallRec("oled_set_cursor", 0, 1, <<>>),
       CallRec("oled_write_string", 0, 0, HumidityText) >>

\* The calls of main, in program order, before its idle loop.
MainProgram ==
    << CallRec("i2c_init", 0, 0, <<>>),
       CallRec("oled_init", 0, 0, <<>>),
       CallRec("oled_set_cursor", 0, 0, <<>>),
       CallRec("oled_write_string", 0, 0, TempText),
       CallRec("oled_set_cursor", 0, 1, <<>>),
       CallRec("oled_write_string", 0, 0, HumidityText) >>

\* main makes its next call; once all are made it stays in while (1) {},
\* which changes nothing.
main ==
    /\ Running("main")
    /\ Top.pc <= Len(MainProgram)
    /\ LET c == MainProgram[Top.pc]
       IN  /\ stack' = CallFrom(Top.pc + 1, Frame(c.fn, c.a, c.b, c.str))
           /\ calls' = Append(calls, c)
    /\ UNCHANGED <<hw, log, reads, ret, cfg>>

\* main is in its idle loop
MainIdle == Running("main") /\ Top.pc = Len(MainProgram) + 1

\* Reset: the peripheral's registers are clear, and the build has filled the
\* flash outside the font table with one of the undefined bytes.
MainInit ==
    /\ log = <<>>
    /\ stack = <<Frame("main", 0, 0, <<>>)>>
    /\ MADDR = 0
    /\ MDATA = 0
    /\ wif = FALSE
    /\ inflight = FALSE
    /\ busOpen = FALSE
    /\ rxack = FALSE
    /\ MBAUD = 0
    /\ MCTRLA = 0
    /\ flashFill \in {{b} : b \in UndefBytes}
    /\ reads = {}
    /\ calls = <<>>
    /\ ret = "none"

\* the statements the processor executes
Cpu ==
    \/ main
    \/ i2c_init
    \/ i2c_start_addr
    \/ i2c_start_wait
    \/ i2c_write_data
    \/ i2c_write_wait
    \/ i2c_stop
    \/ oled_command
    \/ oled_init
    \/ oled_set_cursor
    \/ oled_write_char_open
    \/ oled_write_char_glyph
    \/ oled_write_char_close
    \/ oled_write_string

MainNext == Cpu \/ TwiComplete

MainSpec == MainInit /\ [][MainNext]_vars

\* The processor keeps executing, and the peripheral finishes every byte it
\* is given.
MainFairSpec == MainSpec /\ WF_vars(Cpu) /\ WF_vars(TwiComplete)

-----------------------------------------------------------------------------
(* Reading the mock transport's recording *)

\* The recording as transactions: address byte, the bytes written, and
\* whether the stop was seen.  A byte or stop outside a transaction is kept
\* as a transaction of its own with address -1.
\* the first event at or after position k that is not a byte (a start or a
\* stop), or one past the end of the recording
RECURSIVE NextMark(_, _)
NextMark(l, k) ==
    IF k > Len(l) \/ l[k].k # "byte" THEN k ELSE NextMark(l, k + 1)

RECURSIVE TxnsFrom(_, _, _)
TxnsFrom(l, k, acc) ==
    IF k > Len(l) THEN acc
    ELSE LET e == l[k]
             open == acc # <<>> /\ ~acc[Len(acc)].closed
             first == IF e.k = "byte" THEN k ELSE k + 1
             j == NextMark(l, first)
             bytes == [i \in 1..(j - first) |-> l[first + i - 1].v]
             closes == j <= Len(l) /\ l[j].k = "stop"
             rest == IF closes THEN j + 1 ELSE j
         IN  CASE e.k = "start" ->
                    TxnsFrom(l, rest,
                        Append(acc, [addr |-> e.v, bytes |-> bytes, closed |-> closes,
                                     restart |-> open]))
               [] e.k = "byte" ->
                    TxnsFrom(l, rest,
                        Append(acc, [addr |-> -1, bytes |-> bytes, closed |-> closes,
                                     restart |-> FALSE]))
               [] e.k = "stop" ->
                    TxnsFrom(l, k + 1,
                        Append(acc, [addr |-> -1, bytes |-> <<>>, closed |-> TRUE,
                                     restart |-> FALSE]))

Txns == TxnsFrom(log, 1, <<>>)

\* a complete transaction to the display (write address 0x78) that carries
\* the command control byte and exactly one opcode
IsCommand(t) ==
    /\ t.closed /\ ~t.restart /\ t.addr = 120
    /\ Len(t.bytes) = 2 /\ t.bytes[1] = 0

\* a complete transaction to the display that carries the data control byte
IsData(t) ==
    /\ t.closed /\ ~t.restart /\ t.addr = 120
    /\ Len(t.bytes) >= 1 /\ t.bytes[1] = 64

Payload(t) == Tail(t.bytes)

IsPrefix(s, u) == Len(s) <= Len(u) /\ s = SubSeq(u, 1, Len(s))

\* the only recorded call is f and it has returned
Done(f) == calls = <<f>> /\ stack = <<>> /\ ret = "void"

-----------------------------------------------------------------------------
(* oled_init *)

InitCall == CallRec("oled_init", 0, 0, <<>>)

\* The documented bring-up order; -1 stands for a parameter byte whose value
\* the order does not fix.
BringUp ==
    <<174, 213, 128, 168, -1, 211, 0, 64, 141, 20, 32, 0, 161, 200,
      129, -1, 217, -1, 219, -1, 164, 166, 175>>

Matches(op, want) == want = -1 \/ op = want

\* the opcodes of the complete command transactions recorded so far
Opcodes == [k \in 1..Len(Txns) |-> IF IsCommand(Txns[k]) THEN Txns[k].bytes[2] ELSE -2]

\* C1: while oled_init runs, the transactions recorded are command
\* transactions of one opcode each, following the documented bring-up order
\* from 0xAE on (only the last may still be open); once it has returned, the
\* whole order has been sent, ending with 0xAF.
C1_InitOrder ==
    (calls = <<InitCall>>) =>
        /\ Len(Txns) <= Len(BringUp)
        /\ \A k \in 1..Len(Txns) :
              \/ IsCommand(Txns[k]) /\ Matches(Opcodes[k], BringUp[k])
              \/ /\ k = Len(Txns) /\ ~Txns[k].closed /\ Txns[k].addr = 120
                 /\ Len(Txns[k].bytes) <= 2
                 /\ (Len(Txns[k].bytes) >= 1 => Txns[k].bytes[1] = 0)
                 /\ (Len(Txns[k].bytes) = 2 => Matches(Txns[k].bytes[2], BringUp[k]))
        /\ (ret = "void" =>
               /\ Len(Txns) = Len(BringUp)
               /\ \A k \in 1..Len(Txns) : IsCommand(Txns[k]))

C1_Witness ==
    /\ Done(InitCall)
    /\ Opcodes[1] = 174
    /\ Opcodes[Len(Opcodes)] = 175

\* C2 as claimed: one run of oled_init emits exactly 22 command transactions.
C2_Exactly22 ==
    Done(InitCall) =>
        Cardinality({k \in 1..Len(Txns) : IsCommand(Txns[k])}) = 22 /\ Len(Txns) = 22

\* C2 amended: one run of oled_init emits exactly 23 command transactions
\* and nothing else.
C2_Exactly23 ==
    Done(InitCall) =>
        Cardinality({k \in 1..Len(Txns) : IsCommand(Txns[k])}) = 23 /\ Len(Txns) = 23

C2_Witness == Done(InitCall) /\ Len(log) = 4 * 23

-----------------------------------------------------------------------------
(* Glyph lookup *)

DigitChars == 48..57

\* The font row the table's comments give to character code c: "32 (space)",
\* "33 !", then "48 0" .. "57 9".
DocGlyph(c) ==
    CASE c = 32 -> font[1]
      [] c = 33 -> font[2]
      [] c \in DigitChars -> font[3 + (c - 48)]

StringCall(s) == CallRec("oled_write_string", 0, 0, s)

CharCall(c) == CallRec("oled_write_char", c, 0, <<>>)

\* C3 as claimed: oled_write_string of a one-digit string d emits one data
\* transaction whose payload is the five bytes of the font row defined for d
\* and then 0x00 ("0" gives 7C 12 11 12 7C 00).
C3_DigitGlyph ==
    \A d \in DigitChars :
        Done(StringCall(<<d>>)) =>
            /\ Len(Txns) = 1
            /\ IsData(Txns[1])
            /\ Payload(Txns[1]) = DocGlyph(d) \o <<0>>

\* the character codes that have a row in the table: [32, 32 + N)
Supported(c) == 32 <= c /\ c < 32 + FontRows

\* C4 as claimed: no read of the font table uses a row index outside
\* 0..N-1, and oled_write_char of an unsupported character ends with
\* UnsupportedGlyph.
C4_GlyphBounds ==
    /\ \A r \in reads : 0 <= r /\ r < FontRows
    /\ \A c \in CharArgs :
          (calls = <<CharCall(c)>> /\ ~Supported(c) /\ stack = <<>> /\ ret # "none")
              => ret = "UnsupportedGlyph"

-----------------------------------------------------------------------------
(* Cursor addressing and character cells *)

CursorCall(col, row) == CallRec("oled_set_cursor", col, row, <<>>)

\* the recorded calls are oled_set_cursor and then oled_write_char, and the
\* second has returned
CursorThenChar ==
    /\ Len(calls) = 2 /\ stack = <<>> /\ ret = "void"
    /\ calls[1].fn = "oled_set_cursor" /\ calls[2].fn = "oled_write_char"

\* C5: oled_set_cursor(col, row) followed immediately by oled_write_char(c)
\* puts on the bus exactly three command transactions and then one data
\* transaction whose payload is 6 bytes, the last one 0x00 (the 5 bytes
\* before it are the row font[c - 32] when c has a row), and nothing else.
C5_CursorThenChar ==
    CursorThenChar =>
        /\ Len(Txns) = 4
        /\ \A k \in 1..3 : IsCommand(Txns[k])
        /\ IsData(Txns[4])
        /\ Len(Payload(Txns[4])) = 6
        /\ Payload(Txns[4])[6] = 0
        /\ (Supported(calls[2].a) =>
               SubSeq(Payload(Txns[4]), 1, 5) = font[calls[2].a - 32 + 1])
        /\ Len(log) = 3 * 4 + 9

C5_Witness ==
    /\ CursorThenChar
    /\ calls[1].a = 127 /\ calls[1].b = 7 /\ calls[2].a = 33
    /\ Len(Txns) = 4 /\ Payload(Txns[4]) = <<0, 0, 95, 0, 0, 0>>

\* The opcodes of the controller command set other than the three
\* addressing commands: the opcodes of the bring-up sequence, 0x40|line for
\* every start line, and display on.
OtherOpcodes == {174, 175, 213, 168, 211, 141, 32, 161, 200, 129, 217, 219, 164, 166}
                    \cup (64..127)

\* C6: for col in 0..127 and row in 0..7, oled_set_cursor(col, row) sends
\* 0xB0 + row, (col mod 16) and 0x10 + (col div 16), in this order; they lie
\* in 0xB0..0xB7, 0x00..0x0F and 0x10..0x17, col is 16 * (third - 0x10) +
\* second, and none of them is another opcode of the command set.
C6_CursorOpcodes ==
    (Len(calls) = 1 /\ Done(calls[1]) /\ calls[1].fn = "oled_set_cursor"
        /\ calls[1].a \in Cols /\ calls[1].b \in Rows) =>
        LET col == calls[1].a
            row == calls[1].b
        IN  /\ Opcodes = <<176 + row, col % 16, 16 + (col \div 16)>>
            /\ Opcodes[1] \in 176..183
            /\ Opcodes[2] \in 0..15
            /\ Opcodes[3] \in 16..23
            /\ col = 16 * (Opcodes[3] - 16) + Opcodes[2]
            /\ row = Opcodes[1] - 176
            /\ \A k \in 1..3 : Opcodes[k] \notin OtherOpcodes

C6_Witness ==
    /\ Done(CursorCall(127, 7))
    /\ Opcodes = <<183, 15, 23>>

-----------------------------------------------------------------------------
(* Strings *)

\* C7: while the one recorded call is oled_write_string(""), nothing is
\* recorded on the bus and no step changes the peripheral: no start, no
\* byte, no stop.
C7_EmptyString ==
    [][(calls' = <<StringCall(<<>>)>>) => (log' = <<>> /\ hw' = hw /\ ~busOpen')]_vars

C7_Witness == Done(StringCall(<<>>)) /\ log = <<>>

AllDigits(s) == \A k \in 1..Len(s) : s[k] \in DigitChars

RECURSIVE PayloadBytes(_, _)
PayloadBytes(t, k) ==
    IF k > Len(t) THEN 0 ELSE Len(Payload(t[k])) + PayloadBytes(t, k + 1)

\* C8: for a string s of digit characters, oled_write_string(s) emits
\* exactly Len(s) data transactions, and their payloads (without address and
\* 0x40 control bytes) hold 6 * Len(s) bytes in all.
C8_DigitStringLength ==
    (Len(calls) = 1 /\ Done(calls[1]) /\ calls[1].fn = "oled_write_string"
        /\ AllDigits(calls[1].str)) =>
        LET s == calls[1].str
        IN  /\ Len(Txns) = Len(s)
            /\ \A k \in 1..Len(Txns) : IsData(Txns[k])
            /\ PayloadBytes(Txns, 1) = 6 * Len(s)

C8_Witness ==
    /\ Done(StringCall(<<48, 48>>))
    /\ Len(Txns) = 2 /\ PayloadBytes(Txns, 1) = 12

-----------------------------------------------------------------------------
(* Transactions *)

\* the bus events recorded since frame f was entered
Since(f) == SubSeq(log, f.mark + 1, Len(log))

CommandEvents(cmd) ==
    <<Ev("start", 120), Ev("byte", 0), Ev("byte", cmd), Ev("stop", 0)>>

\* C9: every oled_command(cmd) call puts on the bus, in order, a start
\* addressed to 0x3C for writing (address byte 0x78), the control byte 0x00,
\* the byte cmd and a stop, and nothing else: what is recorded since the
\* call was entered is a prefix of these four events, and all four when the
\* call is about to return.
C9_CommandTransaction ==
    \A k \in 1..Len(stack) :
        stack[k].fn = "oled_command" =>
            /\ IsPrefix(Since(stack[k]), CommandEvents(stack[k].a))
            /\ (k = Len(stack) => Len(Since(stack[k])) = stack[k].pc - 1)
            /\ (k < Len(stack) => Len(Since(stack[k])) \in {stack[k].pc - 2, stack[k].pc - 1})
            /\ (k = Len(stack) /\ stack[k].pc = 5
                   => Since(stack[k]) = CommandEvents(stack[k].a))

C9_Witness ==
    /\ Running("oled_command") /\ Top.pc = 5 /\ Top.a = 175
    /\ Since(Top) = CommandEvents(175)

Recorded(kind) == Len(log') = Len(log) + 1 /\ log'[Len(log')].k = kind

\* C10: a start condition is issued only when the bus is closed, a byte is
\* written and a stop is issued only while a transaction is open, and the
\* bus is closed whenever the outermost driver call has returned.
C10_BusDiscipline ==
    [][ /\ (Recorded("start") => ~busOpen)
        /\ (Recorded("byte") => busOpen)
        /\ (Recorded("stop") => busOpen)
        /\ (stack' = <<>> => ~busOpen') ]_vars

C10_Witness ==
    /\ stack = <<>> /\ ret = "void" /\ ~busOpen
    /\ Len(calls) = 1 /\ calls[1].fn = "oled_write_string"
    /\ Len(Txns) = 2 /\ Txns[2].closed

-----------------------------------------------------------------------------
(* Bus faults *)

\* the innermost function is in the wait loop of i2c_start or i2c_write
Waiting == (Running("i2c_start") \/ Running("i2c_write")) /\ Top.pc = 2

\* C11 as claimed: when the peripheral does not raise WIF, i2c_start and
\* i2c_write stop waiting after a bounded number of polls (here: before the
\* poll count reaches MaxPolls) and report BusTimeout to their caller.
C11_BoundedWait ==
    /\ (Waiting /\ ~wif) => Top.i < MaxPolls
    /\ \A k \in 1..Len(stack) :
          (stack[k].fn \in {"i2c_start", "i2c_write"} /\ stack[k].i >= MaxPolls)
              => ret = "BusTimeout"

\* the positions of the recording where a byte was left unacknowledged
NackAt == {k \in 1..Len(log) : log[k].k = "nack"}

\* C13 as claimed: once a command transaction of oled_init has failed (a
\* byte was not acknowledged), oled_init starts no further transaction, so
\* display-on 0xAF is never sent after the failure, and it ends reporting an
\* initialization error.
C13_InitAborts ==
    (Len(calls) = 1 /\ calls[1] = InitCall) =>
        \A k \in NackAt :
            /\ \A j \in (k + 1)..Len(log) :
                  /\ log[j].k # "start"
                  /\ ~(log[j].k = "byte" /\ log[j].v = OLED_CMD_DISPLAY_ON)
            /\ (stack = <<>> /\ ret # "none" => ret = "InitializationFailure")

-----------------------------------------------------------------------------
(* main *)

CountCalls(fn) == Cardinality({k \in 1..Len(calls) : calls[k].fn = fn})

\* main has made a rendering call
Rendering ==
    \E k \in 1..Len(calls) : calls[k].fn \in {"oled_set_cursor", "oled_write_string"}

\* C12: while main runs, i2c_init and oled_init are each called at most once
\* and exactly once by the time main idles; nothing reaches the bus before
\* i2c_init has returned with the peripheral enabled; until main makes a
\* rendering call the bus carries only oled_init's transactions, and from
\* the first rendering call on the recording starts with the 23 complete
\* command transactions of oled_init, the last being display-on 0xAF.
C12_InitOnceBeforeRendering ==
    LET T == Txns
    IN  /\ CountCalls("i2c_init") <= 1
        /\ CountCalls("oled_init") <= 1
        /\ (MainIdle => CountCalls("i2c_init") = 1 /\ CountCalls("oled_init") = 1)
        /\ ((log # <<>> \/ inflight) =>
               /\ Len(calls) >= 2
               /\ calls[1].fn = "i2c_init"
               /\ MCTRLA = TWI_ENABLE_bm)
        /\ (~Rendering => Len(T) <= Len(InitSeq))
        /\ (Rendering =>
               /\ Len(T) >= Len(InitSeq)
               /\ \A k \in 1..Len(InitSeq) :
                     IsCommand(T[k]) /\ T[k].bytes[2] = InitSeq[k]
               /\ T[Len(InitSeq)].bytes[2] = OLED_CMD_DISPLAY_ON)

C12_Witness ==
    LET T == Txns
    IN  /\ MainIdle
        /\ Len(T) = Len(InitSeq) + 2 * CursorLen + Len(TempText) + Len(HumidityText)
        /\ IsData(T[Len(T)])


\* C14 as claimed: every font row index computed while main runs lies inside
\* the table and is the row the table gives to that character.
C14_MainCharsInTable ==
    \A r \in reads :
        /\ r \in 0..(FontRows - 1)
        /\ (r + 32) \in ({32, 33} \cup DigitChars)
        /\ font[r + 1] = DocGlyph(r + 32)

\* the bus clock a divisor gives: F_CPU / (2 * (BAUD + 5))
BusClock(baud) == F_CPU \div (2 * (baud + 5))

\* C19 as claimed: once i2c_init has returned, the baud register holds the
\* computed divisor, which is non-negative and untruncated, and the bus clock
\* it gives is at most the target SCL_CLOCK.
C19_BaudWithinTarget ==
    (Len(calls) >= 2) =>
        /\ BaudValue >= 0
        /\ MBAUD = BaudValue
        /\ BusClock(MBAUD) <= SCL_CLOCK

-----------------------------------------------------------------------------
(* Blocking waits *)

\* the innermost function returns
Returns == Len(stack') = Len(stack) - 1

\* C15: an address or data byte is loaded, and a stop is issued, only when
\* no byte is in flight; loading a byte clears the completion flag and puts
\* the byte in flight; the flag is raised only by the completion of the byte
\* in flight; and i2c_start and i2c_write return from their wait only with
\* the flag raised and nothing in flight.
C15_BlockingWaits ==
    [][ /\ (Recorded("start") \/ Recorded("byte")) =>
               ~inflight /\ inflight' /\ ~wif'
        /\ Recorded("stop") => ~inflight
        /\ (~wif /\ wif') => inflight /\ ~inflight'
        /\ (Waiting /\ Returns) => wif /\ ~inflight
      ]_vars

C15_Witness ==
    /\ stack # <<>>
    /\ ~Waiting
    /\ Len(log) >= 2
    /\ log[Len(log)].k = "byte"
    /\ log[Len(log) - 1].k = "start"
    /\ wif
    /\ ~inflight

-----------------------------------------------------------------------------
(* Strings *)

-----------------------------------------------------------------------------
(* Multiplex ratio *)

\* the positions in a list of opcodes that follow the multiplex-ratio opcode
AfterMultiplex(ops) ==
    {k \in 2..Len(ops) : ops[k - 1] = OLED_CMD_SET_MULTIPLEX}

\* page row (eight pixel rows, 8*row .. 8*row + 7) lies within the rows a
\* multiplex parameter of mux (height - 1) drives
PageInside(row, mux) == 8 * row + 7 <= mux

-----------------------------------------------------------------------------
(* Termination of main *)

Events(kind) == Cardinality({k \in 1..Len(log) : log[k].k = kind})

\* the transactions main's calls make: the commands of oled_init and of two
\* oled_set_cursor calls, and one data transaction per character
MainTransactions ==
    Len(InitSeq) + 2 * CursorLen + Len(TempText) + Len(HumidityText)

\* main idles with every call made and returned, every transaction started
\* and stopped, nothing in flight and the bus closed
MainDone ==
    /\ MainIdle
    /\ Len(stack) = 1
    /\ calls = MainProgram
    /\ Events("start") = MainTransactions
    /\ Events("stop") = MainTransactions
    /\ ~inflight
    /\ ~busOpen

\* C18: when the processor keeps running and the peripheral completes every
\* byte it is given, main reaches its idle loop with all its transactions
\* made and the bus closed, and stays there; every wait of i2c_start and
\* i2c_write ends.
C18_MainReachesIdle ==
    /\ <>[]MainDone
    /\ [](Waiting => <>(~Waiting))

C18_Witness ==
    /\ MainDone
    /\ log[Len(log)].k = "stop"
    /\ wif = FALSE
=============================================================================
